---- MODULE Spec2Model ----
(***************************************************************************)
(* A model of the Manorama news scraper (manorama_scraper.py) and of the   *)
(* CSV merger (merge_data.py).                                             *)
(*                                                                         *)
(*   Spec          one collection cycle: run_scraping_cycle, with          *)
(*                 scrape_all_categories, save_to_csv and                  *)
(*                 save_scraping_summary.                                  *)
(*   SpecLog       a sequence of cycles as schedule_scraping runs them,    *)
(*                 with scrape_all_categories taken in one step.           *)
(*   SpecCalc      the pure calculators calculate_engagement_score and     *)
(*                 calculate_read_time.                                    *)
(*   SpecMerge     merge_csv_files over a folder of CSV files.             *)
(*   SpecHeadline  extract_headline over a parsed document.                *)
(*   SpecLocation  extract_location over a parsed document and a category. *)
(*   SpecArticle   extract_date, extract_views and extract_article_data    *)
(*                 over a parsed article document.                         *)
(***************************************************************************)
EXTENDS Integers, Sequences, FiniteSets, TLC

VARIABLES
    \* ---- the collection cycle (ManoramaScraper) ----
    max_articles,    \* self.max_articles
    pc,              \* position inside run_scraping_cycle
    cat,             \* index of the category the outer loop is at
    page,            \* response of the category page last requested
    article_links,   \* the list extract_article_links returned
    li,              \* index of the link the inner loop is at
    all_articles,    \* all_articles of scrape_all_categories
    events,          \* number of off-nominal pages and links met so far
    attempts,        \* history: every extract_article_data call, in order
    started,         \* history: categories whose links were requested
    planned,         \* history: Len(article_links) per category
    csv_store,       \* the CSV files written by save_to_csv
    summary_store,   \* scraping_summary.json
    summary_failed,  \* history: the summary store failed in this cycle
    ret,             \* value returned by run_scraping_cycle
    cycle_log,       \* history: the outcome of every cycle that returned
    \* ---- the calculators ----
    calc_in,         \* arguments of the call
    calc_out,        \* its result
    \* ---- the merger ----
    csv_files,       \* the folder's files, in glob order
    merged_out,      \* what merge_csv_files wrote
    \* ---- the extractors over a parsed document ----
    soup,            \* the parsed document
    headline,        \* what extract_headline returned
    doc_category,    \* the category argument of the extractor
    extracted        \* what the extractor returned

cycleVars == <<max_articles, pc, cat, page, article_links, li, all_articles,
               events, attempts, started, planned, csv_store, summary_store,
               summary_failed, ret, cycle_log>>
calcVars == <<calc_in, calc_out>>
mergeVars == <<csv_files, merged_out>>
docVars == <<soup, headline, doc_category, extracted>>
vars == <<cycleVars, calcVars, mergeVars, docVars>>
notCycleVars == <<calcVars, mergeVars, docVars>>
notCalcVars == <<cycleVars, mergeVars, docVars>>
notMergeVars == <<cycleVars, calcVars, docVars>>
notDocVars == <<cycleVars, calcVars, mergeVars>>

Min(a, b) == IF a <= b THEN a ELSE b
Max(a, b) == IF a >= b THEN a ELSE b

\* A result that is not there yet.
Pending == [kind |-> "pending"]

(***************************************************************************)
(* Bounds of the model.                                                    *)
(***************************************************************************)
\* Largest per-category share that max_articles is drawn for.
MaxShare == 2
\* Largest number of distinct article links on one category page.
MaxLinks == 3
\* Off-nominal happenings per cycle: a category page that fails or holds
\* fewer links than the per-category limit, a link that is broken or has no
\* headline.
MaxEvents == 1

(***************************************************************************)
(* The collection cycle.                                                   *)
(***************************************************************************)
\* self.categories: nine keys, iterated in insertion order.
categories == <<"kerala", "india", "world", "sports", "movies", "business",
                "health", "technology", "lifestyle">>
NumCategories == Len(categories)

\* The values max_articles_per_run is drawn from: every multiple of the
\* number of categories up to MaxShare shares, and the last value before the
\* next multiple.
MaxArticlesChoices ==
    {NumCategories * k + r : k \in 0..MaxShare, r \in {0, NumCategories - 1}}

\* What an article link leads to.
LinkKinds == {"article", "no_headline", "broken"}

\* The responses of a category page: the request fails, or the page holds
\* n article links (what the selector loop of extract_article_links keeps:
\* valid hrefs, each once, in order of discovery).  cross is 1 when the
\* first href of the page is also the first href of the first category's
\* page (an article listed under two categories), else 0.
PageFailure == [ok |-> FALSE, links |-> <<>>, cross |-> 0]
PageOf(links, cross) == [ok |-> TRUE, links |-> links, cross |-> cross]
Pages == {PageFailure} \cup
         {PageOf(l, x) :
             l \in UNION {[1..n -> LinkKinds] : n \in 0..MaxLinks},
             x \in 0..1}

\* The absolute url of link i of the page of category c.
FullLink(resp, c, i) == IF i = resp.cross THEN <<1, 1>> ELSE <<c, i>>

\* A variant that keeps the whole list.
PySliceWhole(s, n) == s
\* Python's seq[:n].
PySlicePrefix(s, n) ==
    IF n >= 0 THEN SubSeq(s, 1, Min(n, Len(s)))
              ELSE SubSeq(s, 1, Max(0, Len(s) + n))

\* A variant that rounds the share up.
PerCategoryLimitCeil(m, n) == (m + n - 1) \div n
\* self.max_articles // len(self.categories)
PerCategoryLimit(m, n) == m \div n

\* extract_article_links: the links of the page cut to the per-category
\* limit; any exception is caught and gives the empty list.
extract_article_links(resp, c, m) ==
    IF ~resp.ok
    THEN [kind |-> "return", links |-> <<>>]
    ELSE [kind |-> "return",
          links |-> PySlicePrefix(
              [i \in 1..Len(resp.links) |->
                  [url |-> FullLink(resp, c, i), leads_to |-> resp.links[i]]],
              PerCategoryLimit(m, NumCategories))]

\* The NewsArticle built for a link (the fields the cycle reads).
NewsArticle(link, c) ==
    [headline |-> "H", category |-> categories[c], url |-> link.url]

\* A variant without the try/except: a broken article raises.
ExtractArticleDataRaising(link, c) ==
    CASE link.leads_to = "broken" -> [kind |-> "raise"]
      [] link.leads_to = "no_headline" -> [kind |-> "none"]
      [] OTHER -> [kind |-> "article", article |-> NewsArticle(link, c)]
\* A variant without `if not headline: return None`.
ExtractArticleDataKeepsEmpty(link, c) ==
    CASE link.leads_to = "broken" -> [kind |-> "none"]
      [] OTHER -> [kind |-> "article", article |-> NewsArticle(link, c)]
\* extract_article_data: None for an empty headline, None when anything
\* raises (caught and logged), else the article.
extract_article_data(link, c) ==
    CASE link.leads_to = "broken" -> [kind |-> "none"]
      [] link.leads_to = "no_headline" -> [kind |-> "none"]
      [] OTHER -> [kind |-> "article", article |-> NewsArticle(link, c)]

\* Off-nominal happenings a page brings.
EventsOf(resp, m) ==
    IF ~resp.ok THEN 1
    ELSE (IF Len(resp.links) < PerCategoryLimit(m, NumCategories) THEN 1 ELSE 0)
         + Cardinality({i \in 1..Len(resp.links) : resp.links[i] # "article"})
         + (IF resp.cross # 0 THEN 1 ELSE 0)

\* What a link that is never requested leads to is never observed: such
\* links are taken to lead to articles, and to be on no other page.
UnrequestedAreArticles(resp, m) ==
    /\ \A i \in 1..Len(resp.links) :
          i > PerCategoryLimit(m, NumCategories) => resp.links[i] = "article"
    /\ resp.cross <= Min(Len(resp.links), PerCategoryLimit(m, NumCategories))

CycleInit ==
    /\ max_articles \in MaxArticlesChoices
    /\ pc = "idle"
    /\ cat = 1
    /\ page = PageFailure
    /\ article_links = <<>>
    /\ li = 1
    /\ all_articles = <<>>
    /\ events = 0
    /\ attempts = <<>>
    /\ started = <<>>
    /\ planned = [c \in 1..NumCategories |-> 0]
    /\ csv_store = <<>>
    /\ summary_store = [valid |-> TRUE, entries |-> <<>>]
    /\ summary_failed = FALSE
    /\ ret = Pending
    /\ cycle_log = <<>>

CycleIdle ==
    /\ max_articles = 0
    /\ pc = "off"
    /\ cat = 1
    /\ page = PageFailure
    /\ article_links = <<>>
    /\ li = 1
    /\ all_articles = <<>>
    /\ events = 0
    /\ attempts = <<>>
    /\ started = <<>>
    /\ planned = [c \in 1..NumCategories |-> 0]
    /\ csv_store = <<>>
    /\ summary_store = [valid |-> TRUE, entries |-> <<>>]
    /\ summary_failed = FALSE
    /\ ret = Pending
    /\ cycle_log = <<>>

CalcIdle == calc_in = Pending /\ calc_out = Pending
MergeIdle == csv_files = <<>> /\ merged_out = Pending
DocIdle ==
    /\ soup = <<>>
    /\ headline = Pending
    /\ doc_category = ""
    /\ extracted = Pending

\* run_scraping_cycle up to the first category of scrape_all_categories.
RunScrapingCycle ==
    /\ pc = "idle"
    /\ pc' = "category"
    /\ cat' = 1
    /\ all_articles' = <<>>
    /\ UNCHANGED notCycleVars
    /\ UNCHANGED <<max_articles, page, article_links, li, events, attempts,
                   started, planned, csv_store, summary_store, summary_failed,
                   ret, cycle_log>>

\* One turn of the outer loop up to the inner loop: the category's links.
\* A list with no link, and an exception (caught, `continue`), both go on
\* with the next category.
\* The first page has no earlier page to share a link with.
ExtractArticleLinks ==
    /\ pc = "category"
    /\ cat <= NumCategories
    /\ \E resp \in Pages :
        /\ events + EventsOf(resp, max_articles) <= MaxEvents
        /\ UnrequestedAreArticles(resp, max_articles)
        /\ resp.cross # 0 => cat > 1
        /\ LET r == extract_article_links(resp, cat, max_articles)
               links == IF r.kind = "raise" THEN <<>> ELSE r.links
           IN /\ page' = resp
              /\ events' = events + EventsOf(resp, max_articles)
              /\ article_links' = links
              /\ planned' = [planned EXCEPT ![cat] = Len(links)]
              /\ started' = Append(started, cat)
              /\ li' = 1
              /\ IF links = <<>>
                 THEN pc' = "category" /\ cat' = cat + 1
                 ELSE pc' = "link" /\ cat' = cat
    /\ UNCHANGED notCycleVars
    /\ UNCHANGED <<max_articles, all_articles, attempts, csv_store,
                   summary_store, summary_failed, ret, cycle_log>>

\* One turn of the inner loop: the article of the link, appended when there
\* is one; `break` once max_articles records are collected.  An exception
\* out of extract_article_data leaves the category (`continue` of the
\* outer handler).
ExtractArticleData ==
    /\ pc = "link"
    /\ li <= Len(article_links)
    /\ LET link == article_links[li]
           r == extract_article_data(link, cat)
           collected == IF r.kind = "article"
                        THEN Append(all_articles, r.article)
                        ELSE all_articles
           leave == \/ r.kind = "raise"
                    \/ Len(collected) >= max_articles
                    \/ li = Len(article_links)
       IN /\ attempts' = Append(attempts,
                 [category |-> cat, link |-> li, url |-> link.url,
                  found |-> link.leads_to])
          /\ all_articles' = collected
          /\ IF leave
             THEN pc' = "category" /\ cat' = cat + 1 /\ li' = li
             ELSE pc' = "link" /\ cat' = cat /\ li' = li + 1
    /\ UNCHANGED notCycleVars
    /\ UNCHANGED <<max_articles, page, article_links, events, started,
                   planned, csv_store, summary_store, summary_failed, ret,
                   cycle_log>>

\* scrape_all_categories returns all_articles.
ScrapeReturn ==
    /\ pc = "category"
    /\ cat > NumCategories
    /\ pc' = "scraped"
    /\ UNCHANGED notCycleVars
    /\ UNCHANGED <<max_articles, cat, page, article_links, li, all_articles,
                   events, attempts, started, planned, csv_store,
                   summary_store, summary_failed, ret, cycle_log>>

\* save_to_csv: the rows written for the articles, in order.
CsvRows(articles) ==
    [i \in 1..Len(articles) |->
        [headline |-> articles[i].headline, category |-> articles[i].category,
         url |-> articles[i].url]]

\* The summary of a cycle (the fields that depend on the modelled state).
Summary(articles, filename) ==
    [articles_collected |-> Len(articles), filename |-> filename,
     categories |-> {articles[i].category : i \in 1..Len(articles)}]

\* What can happen to the summary store while it is used: nothing, the read
\* fails, opening it for writing fails, or the write breaks off after the
\* file was truncated.
StoreFaults == {"none", "read", "open_write", "dump"}

\* A variant that writes the new summary alone instead of appending it.
SaveScrapingSummaryOverwriting(store, summary, fault) ==
    CASE fault = "read" \/ ~store.valid -> [kind |-> "return", store |-> store]
      [] fault = "open_write" -> [kind |-> "return", store |-> store]
      [] fault = "dump" ->
            [kind |-> "return", store |-> [valid |-> FALSE, entries |-> <<>>]]
      [] OTHER ->
            [kind |-> "return",
             store |-> [valid |-> TRUE, entries |-> <<summary>>]]
\* A variant without the try/except around the store.
SaveScrapingSummaryRaising(store, summary, fault) ==
    CASE fault = "read" \/ ~store.valid -> [kind |-> "raise", store |-> store]
      [] fault = "open_write" -> [kind |-> "raise", store |-> store]
      [] fault = "dump" ->
            [kind |-> "raise", store |-> [valid |-> FALSE, entries |-> <<>>]]
      [] OTHER ->
            [kind |-> "return",
             store |-> [valid |-> TRUE,
                        entries |-> Append(store.entries, summary)]]
\* save_scraping_summary: read the list, append, write it back; anything the
\* store raises is caught and logged.
save_scraping_summary(store, summary, fault) ==
    CASE fault = "read" \/ ~store.valid -> [kind |-> "return", store |-> store]
      [] fault = "open_write" -> [kind |-> "return", store |-> store]
      [] fault = "dump" ->
            [kind |-> "return", store |-> [valid |-> FALSE, entries |-> <<>>]]
      [] OTHER ->
            [kind |-> "return",
             store |-> [valid |-> TRUE,
                        entries |-> Append(store.entries, summary)]]

Returned(n) == [kind |-> "int", value |-> n]

\* The outcome of a cycle: the records collected, the file written for them
\* (0 for none), and whether the summary store failed.
Outcome(collected, filename, store_failed) ==
    [collected |-> collected, filename |-> filename,
     store_failed |-> store_failed]

\* run_scraping_cycle with no article: warns and returns 0.
NoArticles ==
    /\ pc = "scraped"
    /\ all_articles = <<>>
    /\ ret' = Returned(0)
    /\ pc' = "returned"
    /\ cycle_log' = Append(cycle_log, Outcome(0, 0, FALSE))
    /\ UNCHANGED notCycleVars
    /\ UNCHANGED <<max_articles, cat, page, article_links, li, all_articles,
                   events, attempts, started, planned, csv_store,
                   summary_store, summary_failed>>

\* run_scraping_cycle with articles: save_to_csv writes the file; when the
\* write raises, the handler of run_scraping_cycle returns 0.
SaveToCsv ==
    /\ pc = "scraped"
    /\ all_articles # <<>>
    /\ \E written \in BOOLEAN :
        IF written
        THEN /\ csv_store' = Append(csv_store, CsvRows(all_articles))
             /\ pc' = "summary"
             /\ ret' = ret
             /\ cycle_log' = cycle_log
        ELSE /\ csv_store' = csv_store
             /\ pc' = "returned"
             /\ ret' = Returned(0)
             /\ cycle_log' = Append(cycle_log,
                                    Outcome(Len(all_articles), 0, FALSE))
    /\ UNCHANGED notCycleVars
    /\ UNCHANGED <<max_articles, cat, page, article_links, li, all_articles,
                   events, attempts, started, planned, summary_store,
                   summary_failed>>

\* run_scraping_cycle after the file is written: save_scraping_summary, then
\* the number of articles is returned; an exception out of
\* save_scraping_summary reaches the handler of run_scraping_cycle, which
\* returns 0.
SaveScrapingSummary ==
    /\ pc = "summary"
    /\ \E fault \in StoreFaults :
        LET r == save_scraping_summary(
                     summary_store,
                     Summary(all_articles, Len(csv_store)), fault)
        IN /\ summary_store' = r.store
           /\ summary_failed' = (fault # "none" \/ ~summary_store.valid)
           /\ ret' = IF r.kind = "raise" THEN Returned(0)
                                         ELSE Returned(Len(all_articles))
           /\ cycle_log' = Append(cycle_log,
                  Outcome(Len(all_articles), Len(csv_store),
                          fault # "none" \/ ~summary_store.valid))
    /\ pc' = "returned"
    /\ UNCHANGED notCycleVars
    /\ UNCHANGED <<max_articles, cat, page, article_links, li, all_articles,
                   events, attempts, started, planned, csv_store>>

Next ==
    \/ RunScrapingCycle
    \/ ExtractArticleLinks
    \/ ExtractArticleData
    \/ ScrapeReturn
    \/ NoArticles
    \/ SaveToCsv
    \/ SaveScrapingSummary

Init == CycleInit /\ CalcIdle /\ MergeIdle /\ DocIdle
Spec == Init /\ [][Next]_vars

(***************************************************************************)
(* A sequence of cycles.  schedule_scraping runs run_scraping_cycle again  *)
(* and again on the same stores; scrape_all_categories is taken in one     *)
(* step, as any list of at most MaxCollected records it can return.        *)
(***************************************************************************)
\* Number of cycles the schedule runs.
MaxCycles == 2
\* Largest number of records a cycle collects.
MaxCollected == 2

\* What scrape_all_categories can return with max_articles = m: the records
\* of the first links of the first n categories.
ScrapeResults(m) ==
    {[c \in 1..n |->
         NewsArticle([url |-> <<c, 1>>, leads_to |-> "article"], c)] :
        n \in 0..Min(MaxCollected,
                     Min(NumCategories, PerCategoryLimit(m, NumCategories)
                                            * NumCategories))}

\* run_scraping_cycle up to the return of scrape_all_categories.
ScrapeAllCategories ==
    /\ pc = "idle"
    /\ all_articles' \in ScrapeResults(max_articles)
    /\ pc' = "scraped"
    /\ UNCHANGED notCycleVars
    /\ UNCHANGED <<max_articles, cat, page, article_links, li, events,
                   attempts, started, planned, csv_store, summary_store,
                   summary_failed, ret, cycle_log>>

\* schedule_scraping: the scheduler calls job() again.
ScheduleNext ==
    /\ pc = "returned"
    /\ Len(cycle_log) < MaxCycles
    /\ pc' = "idle"
    /\ all_articles' = <<>>
    /\ summary_failed' = FALSE
    /\ ret' = Pending
    /\ UNCHANGED notCycleVars
    /\ UNCHANGED <<max_articles, cat, page, article_links, li, events,
                   attempts, started, planned, csv_store, summary_store,
                   cycle_log>>

InitLog == CycleInit /\ CalcIdle /\ MergeIdle /\ DocIdle
NextLog ==
    \/ ScrapeAllCategories
    \/ NoArticles
    \/ SaveToCsv
    \/ SaveScrapingSummary
    \/ ScheduleNext
SpecLog == InitLog /\ [][NextLog]_vars

(***************************************************************************)
(* Properties of the collection cycle.                                     *)
(***************************************************************************)
\* floor(max_articles / number of categories)
Share == max_articles \div NumCategories

\* The calls of extract_article_data made for category c so far.
AttemptsOf(c) == {i \in 1..Len(attempts) : attempts[i].category = c}
ConsideredIn(c) == Cardinality(AttemptsOf(c))
RejectedIn(c) ==
    Cardinality({i \in AttemptsOf(c) : attempts[i].found = "no_headline"})
RecordsOf(c) ==
    Cardinality({i \in 1..Len(all_articles) :
                    all_articles[i].category = categories[c]})
ValidLinks(resp) ==
    Cardinality({i \in 1..Len(resp.links) : resp.links[i] = "article"})

\* scrape_all_categories is running.
Scraping == pc \in {"category", "link"}
\* The outer loop has just finished category cat - 1, whose page is `page`.
CategoryDone == pc = "category" /\ cat > 1

\* C5: in every cycle and for every category, the number of article links
\* fetched for extraction is at most floor(max_articles / 9), however many
\* links the category page holds; for max_articles = 100 that is 11.
C5_PerCategoryCap ==
    /\ \A c \in 1..NumCategories : ConsideredIn(c) <= Share
    /\ Len(article_links) <= Share
    /\ NumCategories = 9
    /\ \A n \in 0..MaxLinks + 11 :
          Len(extract_article_links(
                  PageOf([i \in 1..n |-> "article"], 0), 1, 100).links) <= 11

\* A category whose page held more links than the share, and of which
\* exactly the share was fetched.
C5_Witness ==
    /\ CategoryDone
    /\ page.ok
    /\ Share >= 1
    /\ Len(page.links) > Share
    /\ ConsideredIn(cat - 1) = Share

\* C6 (as claimed): once the number of collected records is at least
\* max_articles, scrape_all_categories requests no further category page and
\* fetches no further article before it returns.
C6_StopsOnceMaxReached ==
    [][(Scraping /\ Len(all_articles) >= max_articles)
          => (started' = started /\ attempts' = attempts)]_vars

\* C7 (as claimed): a link with an empty headline gives no record, does not
\* add to the running count, and takes no per-category slot: a category
\* whose page holds at least the share of links leading to articles (and no
\* broken one) yields the full share of records.
C7_RejectedTakesNoSlot ==
    /\ \A i \in 1..Len(attempts) :
          attempts[i].found = "no_headline"
              => \A j \in 1..Len(all_articles) :
                    \/ all_articles[j].url # attempts[i].url
                    \/ all_articles[j].category #
                          categories[attempts[i].category]
    /\ (/\ CategoryDone
        /\ page.ok
        /\ \A i \in 1..Len(page.links) : page.links[i] # "broken"
        /\ ValidLinks(page) >= Share)
          => RecordsOf(cat - 1) = Share

\* C7 (amended): a link with an empty headline gives no record and does not
\* add to the running count of records, but it does take one of the
\* per-category slots: the records of a category and its rejected links
\* together never exceed the share.
C7_RejectedTakesSlot ==
    /\ \A i \in 1..Len(attempts) :
          attempts[i].found = "no_headline"
              => \A j \in 1..Len(all_articles) :
                    \/ all_articles[j].url # attempts[i].url
                    \/ all_articles[j].category #
                          categories[attempts[i].category]
    /\ Len(all_articles) =
          Cardinality({i \in 1..Len(attempts) : attempts[i].found = "article"})
    /\ \A c \in 1..NumCategories : RecordsOf(c) + RejectedIn(c) <= Share

\* A category whose page held enough links leading to articles, and which
\* yields fewer records than the share because a fetched link was rejected.
C7_Witness ==
    /\ CategoryDone
    /\ page.ok
    /\ ValidLinks(page) >= Share
    /\ RejectedIn(cat - 1) >= 1
    /\ RecordsOf(cat - 1) = Share - RejectedIn(cat - 1)
    /\ Len(all_articles) < max_articles

\* The records of a sequence of attempts: one for each attempt that found an
\* article, in order.
RECURSIVE ArticlesOf(_)
ArticlesOf(as) ==
    IF as = <<>> THEN <<>>
    ELSE LET a == as[Len(as)]
             before == ArticlesOf(SubSeq(as, 1, Len(as) - 1))
         IN IF a.found = "article"
            THEN Append(before,
                        [headline |-> "H", category |-> categories[a.category],
                         url |-> a.url])
            ELSE before

\* C8: failures are isolated.  Whatever fetch fails, the records are exactly
\* those of the fetches that found an article, in order (a failed article or
\* category adds none, earlier records stay); after a failed article the
\* other links of the category are still fetched; the categories are
\* requested in configured order and, when scrape_all_categories has
\* returned, all of them were.
C8_FailuresIsolated ==
    /\ all_articles = ArticlesOf(attempts)
    /\ \A c \in 1..NumCategories :
          (c < cat \/ ~Scraping)
              => \/ ConsideredIn(c) = planned[c]
                 \/ Len(all_articles) >= max_articles
    /\ \A c \in 1..NumCategories :
          \A i \in 1..planned[c] :
              (c < cat /\ Len(all_articles) < max_articles)
                  => \E k \in AttemptsOf(c) : attempts[k].link = i
    /\ started = [i \in 1..Len(started) |-> i]
    /\ pc \in {"scraped", "summary", "returned"}
          => Len(started) = NumCategories

\* scrape_all_categories has returned after a fetch of an article failed: the
\* next link of the same category was fetched and gave a record, and so did
\* a later category.
C8_Witness ==
    /\ pc = "scraped"
    /\ \E i \in 1..Len(attempts) - 1 :
          /\ attempts[i].found = "broken"
          /\ attempts[i].category < NumCategories
          /\ attempts[i + 1].category = attempts[i].category
          /\ attempts[i + 1].found = "article"
          /\ \E j \in 1..Len(all_articles) :
                all_articles[j].url = attempts[i + 1].url
          /\ RecordsOf(attempts[i].category + 1) >= 1

\* C9: when the summary store fails in save_scraping_summary, the cycle
\* still returns the number of records it collected (more than 0), and the
\* file written for the cycle holds exactly those records.
C9_SummaryFailureIsolated ==
    (pc = "returned" /\ summary_failed)
        => /\ ret = Returned(Len(all_articles))
           /\ ret.value > 0
           /\ csv_store # <<>>
           /\ csv_store[Len(csv_store)] = CsvRows(all_articles)

\* A cycle that returned its number of records although the write of the
\* summary store broke off.
C9_Witness ==
    /\ pc = "returned"
    /\ summary_failed
    /\ ~summary_store.valid
    /\ ret = Returned(Len(all_articles))
    /\ Len(all_articles) >= 2

\* No cycle so far met a failure of the summary store.
WorkingStore == \A i \in 1..Len(cycle_log) : ~cycle_log[i].store_failed
\* The cycles so far that collected a record and wrote their file.
LoggedCycles ==
    SelectSeq(cycle_log, LAMBDA o : o.collected > 0 /\ o.filename # 0)

\* C14 (as claimed): with a working summary store, every completed cycle,
\* also one that collected no record, has appended exactly one summary (the
\* cycles whose CSV file could not be written set aside).
C14_OneSummaryPerCycle ==
    (WorkingStore
        /\ \A i \in 1..Len(cycle_log) :
              cycle_log[i].collected > 0 => cycle_log[i].filename # 0)
        => Len(summary_store.entries) = Len(cycle_log)

\* C14 (amended): with a working summary store, the list holds exactly one
\* summary for every completed cycle that collected at least one record
\* and wrote its file, in the order of the cycles and with that cycle's
\* count and file; a cycle without records appends nothing.  Entries
\* already in the list stay as they are, in position.
C14_OneSummaryPerCollectingCycle ==
    WorkingStore
        => /\ summary_store.valid
           /\ Len(summary_store.entries) = Len(LoggedCycles)
           /\ \A i \in 1..Len(LoggedCycles) :
                 /\ summary_store.entries[i].articles_collected =
                       LoggedCycles[i].collected
                 /\ summary_store.entries[i].filename =
                       LoggedCycles[i].filename

\* Two cycles have returned, the first with one record and the second with
\* two: the list holds the first cycle's summary, then the second's.
C14_Witness ==
    /\ pc = "returned"
    /\ WorkingStore
    /\ Len(cycle_log) = 2
    /\ cycle_log[1].collected = 1 /\ cycle_log[2].collected = 2
    /\ Len(summary_store.entries) = 2
    /\ summary_store.entries[1].articles_collected = 1
    /\ summary_store.entries[2].articles_collected = 2
    /\ summary_store.entries[1].filename # summary_store.entries[2].filename

\* C13 (as claimed): within one cycle no two records collected by
\* scrape_all_categories have the same url, also when the same article link
\* is on the pages of two categories.
C13_UrlUnique ==
    \A i, j \in 1..Len(all_articles) :
        all_articles[i].url = all_articles[j].url => i = j

\* C16: whatever the pages hold and whichever fetches fail, the number of
\* records collected by scrape_all_categories is at most the number of
\* categories times floor(max_articles / number of categories), hence at
\* most max_articles; with max_articles below the number of categories (9)
\* no record is collected, and the cycle returns 0.
C16_TotalCap ==
    /\ Len(all_articles) <= NumCategories * (max_articles \div NumCategories)
    /\ Len(all_articles) <= max_articles
    /\ max_articles < NumCategories => all_articles = <<>>
    /\ (max_articles < NumCategories /\ pc = "returned") => ret = Returned(0)

\* A cycle with a positive max_articles below the number of categories has
\* scraped every category, the last page held links, and there is no record.
C16_Witness ==
    /\ pc = "scraped"
    /\ max_articles > 0
    /\ max_articles < NumCategories
    /\ page.ok
    /\ Len(page.links) > 0
    /\ Len(started) = NumCategories
    /\ all_articles = <<>>

(***************************************************************************)
(* The calculators.  A score is held in hundredths (it is rounded to two   *)
(* decimals), so the arithmetic is that of integers.                       *)
(***************************************************************************)
\* Largest view count, and largest count of comments, likes and shares.
MaxViews == 16
MaxCount == 3
\* Largest word count.
MaxWords == 510
\* wpm: int = 200
WordsPerMinute == 200

\* Python's round() of n/d, n >= 0 and d > 0, when n/d is held exactly: to
\* the nearest integer, a tie to the even one.
RoundHalfEven(n, d) ==
    LET q == n \div d
        r == n % d
    IN CASE 2 * r < d -> q
         [] 2 * r > d -> q + 1
         [] OTHER -> IF q % 2 = 0 THEN q ELSE q + 1

\* round(x, 2) of a float x that stands for n/d hundredths: the nearest
\* hundredth; at an exact tie the float's own error decides, so either
\* neighbour can come out.
RoundFloat(n, d) ==
    IF 2 * (n % d) = d THEN {n \div d, n \div d + 1}
                       ELSE {RoundHalfEven(n, d)}

\* A variant without min(engagement, 100).
CalculateEngagementScoreUncapped(v, c, l, s) ==
    IF v = 0 THEN {0}
    ELSE RoundFloat(1000 * (4 * c + 3 * l + 3 * s), v)
\* calculate_engagement_score, in hundredths: 0.0 for no views, else
\* round(min((0.4 c + 0.3 l + 0.3 s) / v * 100, 100), 2).
calculate_engagement_score(v, c, l, s) ==
    IF v = 0 THEN {0}
    ELSE LET weighted == 4 * c + 3 * l + 3 * s
         IN IF 1000 * weighted >= 10000 * v
            THEN {10000}
            ELSE RoundFloat(1000 * weighted, v)

\* A variant with word_count // wpm.
CalculateReadTimeFloor(word_count, wpm) == Max(1, word_count \div wpm)
\* calculate_read_time: max(1, round(word_count / wpm)).
calculate_read_time(word_count, wpm) ==
    Max(1, RoundHalfEven(word_count, wpm))

ScoreCalls ==
    [fn : {"calculate_engagement_score"}, views : 0..MaxViews,
     comments : 0..MaxCount, likes : 0..MaxCount, shares : 0..MaxCount]
ReadTimeCalls == [fn : {"calculate_read_time"}, word_count : 0..MaxWords]

CalcInit ==
    /\ calc_in \in ScoreCalls \cup ReadTimeCalls
    /\ calc_out = Pending

CalculateEngagementScore ==
    /\ calc_in.fn = "calculate_engagement_score"
    /\ calc_out = Pending
    /\ \E h \in calculate_engagement_score(calc_in.views, calc_in.comments,
                                           calc_in.likes, calc_in.shares) :
          calc_out' = [kind |-> "float", hundredths |-> h]
    /\ UNCHANGED calc_in
    /\ UNCHANGED notCalcVars

CalculateReadTime ==
    /\ calc_in.fn = "calculate_read_time"
    /\ calc_out = Pending
    /\ calc_out' = [kind |-> "int",
                    value |-> calculate_read_time(calc_in.word_count,
                                                  WordsPerMinute)]
    /\ UNCHANGED calc_in
    /\ UNCHANGED notCalcVars

InitCalc == CycleIdle /\ CalcInit /\ MergeIdle /\ DocIdle
NextCalc == CalculateEngagementScore \/ CalculateReadTime
SpecCalc == InitCalc /\ [][NextCalc]_vars

ScoreDone ==
    calc_in.fn = "calculate_engagement_score" /\ calc_out # Pending
ReadTimeDone == calc_in.fn = "calculate_read_time" /\ calc_out # Pending

\* C1: for all non-negative counts the engagement score lies in
\* [0.0, 100.0], and it is exactly 0.0 when views = 0.
C1_ScoreBounded ==
    ScoreDone
        => /\ 0 <= calc_out.hundredths
           /\ calc_out.hundredths <= 10000
           /\ calc_in.views = 0 => calc_out.hundredths = 0

\* A score of exactly 100.0 for counts whose weighted rate is above 100.
C1_Witness ==
    /\ ScoreDone
    /\ calc_in.views > 0
    /\ 4 * calc_in.comments + 3 * calc_in.likes + 3 * calc_in.shares
          > 10 * calc_in.views
    /\ calc_out.hundredths = 10000

\* C2: with 200 words per minute the read time is an integer >= 1: the
\* integer nearest to word_count / 200 (a tie going to the even one) when
\* that is at least 1, and 1 otherwise; 400 words give 2 and 0 words give 1.
C2_ReadTime ==
    ReadTimeDone
        => LET w == calc_in.word_count
               m == calc_out.value
               off == IF 200 * m >= w THEN 200 * m - w ELSE w - 200 * m
           IN /\ m >= 1
              /\ w > 100 => /\ 2 * off <= 200
                            /\ 2 * off = 200 => m % 2 = 0
              /\ w <= 100 => m = 1
              /\ w = 400 => m = 2
              /\ w = 0 => m = 1

\* 300 words (1.5 minutes) are rounded up to 2.
C2_Witness ==
    /\ ReadTimeDone
    /\ calc_in.word_count = 300
    /\ calc_out.value = 2

(***************************************************************************)
(* The merger.  A CSV file holds text; pandas.read_csv gives each column   *)
(* of a file one type, inferred from all of its cells.                     *)
(***************************************************************************)
\* Largest number of rows of one CSV file.
MaxRows == 2

\* The files the folder can hold, and the cells of their rows.
FileNames == {"a.csv", "b.csv"}
Headlines == {"1984", "Budget"}
Dates == {"2024-01-01", "2024-01-02"}
\* The texts read_csv parses as integers.
IntegerTexts == {"1984"}

CsvRecords == [headline : Headlines, date : Dates]
\* A file that cannot be parsed (read_csv raises) holds no rows.
CsvFiles ==
    [name : FileNames, readable : {TRUE},
     rows : UNION {[1..n -> CsvRecords] : n \in 0..MaxRows}]
    \cup [name : FileNames, readable : {FALSE}, rows : {<<>>}]

\* glob.glob: the files of the folder, each once, in the order the file
\* system lists them.
Folders ==
    {<<>>} \cup {<<f>> : f \in CsvFiles}
    \cup {<<f, g>> : f, g \in CsvFiles}

\* read_csv's type of a column: int64 when the column has cells and all are
\* integers, else object (str).
ColumnType(rows, col) ==
    IF rows # <<>> /\ \A i \in 1..Len(rows) : rows[i][col] \in IntegerTexts
    THEN "int" ELSE "str"

\* pd.read_csv(file) with df['source_file'] = basename: typed cells.
ReadCsv(file) ==
    [i \in 1..Len(file.rows) |->
        [headline |-> <<ColumnType(file.rows, "headline"),
                        file.rows[i].headline>>,
         date |-> <<ColumnType(file.rows, "date"), file.rows[i].date>>,
         source_file |-> file.name]]

\* The loop over csv_files: the frames of the files that load, in order.
RECURSIVE LoadAll(_)
LoadAll(files) ==
    IF files = <<>> THEN <<>>
    ELSE LET rest == LoadAll(Tail(files))
         IN IF Head(files).readable
            THEN <<ReadCsv(Head(files))>> \o rest
            ELSE rest

\* pd.concat(dfs, ignore_index=True)
RECURSIVE Concat(_)
Concat(dfs) == IF dfs = <<>> THEN <<>> ELSE Head(dfs) \o Concat(Tail(dfs))

\* A variant whose subset also holds source_file.
DuplicateKeyWithSource(row) == <<row.headline, row.date, row.source_file>>
\* subset=['headline', 'date']: a value of one type never equals a value of
\* another (the int 1984 is not the str '1984').
DuplicateKey(row) == <<row.headline, row.date>>

\* drop_duplicates(subset, keep='first')
RECURSIVE DropDuplicates(_)
DropDuplicates(rows) ==
    IF rows = <<>> THEN <<>>
    ELSE LET n == Len(rows)
             before == SubSeq(rows, 1, n - 1)
         IN IF \E i \in 1..n - 1 : DuplicateKey(rows[i]) = DuplicateKey(rows[n])
            THEN DropDuplicates(before)
            ELSE Append(DropDuplicates(before), rows[n])

\* to_csv: every cell written as text.
ToCsv(rows) ==
    [i \in 1..Len(rows) |->
        [headline |-> rows[i].headline[2], date |-> rows[i].date[2],
         source_file |-> rows[i].source_file]]

\* merge_csv_files: nothing is written when the folder has no CSV file or
\* none loads; else the merged, de-duplicated rows.
merge_csv_files(files) ==
    IF files = <<>> \/ LoadAll(files) = <<>>
    THEN [kind |-> "nothing", rows |-> <<>>]
    ELSE [kind |-> "written",
          rows |-> ToCsv(DropDuplicates(Concat(LoadAll(files))))]

MergeInit ==
    /\ csv_files \in Folders
    /\ Len(csv_files) = 2 => csv_files[1].name # csv_files[2].name
    /\ merged_out = Pending

MergeCsvFiles ==
    /\ merged_out = Pending
    /\ merged_out' = merge_csv_files(csv_files)
    /\ UNCHANGED csv_files
    /\ UNCHANGED notMergeVars

InitMerge == CycleIdle /\ CalcIdle /\ MergeInit /\ DocIdle
NextMerge == MergeCsvFiles
SpecMerge == InitMerge /\ [][NextMerge]_vars

TextKey(row) == <<row.headline, row.date>>
TextKeys(rows) == {TextKey(rows[i]) : i \in 1..Len(rows)}

\* The folder holds the same data set twice.
SameTwice ==
    /\ Len(csv_files) = 2
    /\ csv_files[1].readable = csv_files[2].readable
    /\ csv_files[1].rows = csv_files[2].rows

\* C3: merging a data set with itself gives as many records, with the same
\* (headline, date) keys, as merging it alone.
C3_MergeIdempotent ==
    (merged_out # Pending /\ SameTwice)
        => LET once == merge_csv_files(<<csv_files[1]>>)
           IN /\ merged_out.kind = once.kind
              /\ Len(merged_out.rows) = Len(once.rows)
              /\ TextKeys(merged_out.rows) = TextKeys(once.rows)

\* A data set of two different records merged with itself: two records.
C3_Witness ==
    /\ merged_out # Pending
    /\ SameTwice
    /\ Len(csv_files[1].rows) = 2
    /\ merged_out.kind = "written"
    /\ Len(merged_out.rows) = 2

\* The rows of the files that load, as the files hold them, in the order of
\* the folder, each with its file.
RECURSIVE InputRows(_)
InputRows(files) ==
    IF files = <<>> THEN <<>>
    ELSE LET f == Head(files)
         IN (IF f.readable
             THEN [i \in 1..Len(f.rows) |->
                     [headline |-> f.rows[i].headline, date |-> f.rows[i].date,
                      source_file |-> f.name]]
             ELSE <<>>) \o InputRows(Tail(files))

\* C4 (as claimed): every (headline, date) of any input is in the merged
\* output exactly once, and the record kept for it is the first one with
\* that key in the concatenation of the inputs, with that source's tag.
C4_FirstSeenKept ==
    merged_out.kind = "written"
        => LET in == InputRows(csv_files)
               out == merged_out.rows
           IN \A i \in 1..Len(in) :
                 /\ Cardinality({j \in 1..Len(out) :
                                    TextKey(out[j]) = TextKey(in[i])}) = 1
                 /\ (\A k \in 1..i - 1 : TextKey(in[k]) # TextKey(in[i]))
                        => in[i] \in {out[j] : j \in 1..Len(out)}

(***************************************************************************)
(* The headline extractor.  A document is the sequence of its elements in  *)
(* document order; a text is the sequence of its characters.               *)
(***************************************************************************)
\* Largest number of elements of a document.
MaxElements == 2

\* The texts an element can hold: none, blank, and words with and without
\* blanks around them.
Texts == {<<>>, <<" ">>, <<"a">>, <<" ", "b">>, <<"c", " ">>}

\* The elements the selectors of extract_headline tell apart: tag, class,
\* and whether an ancestor has the class "title".
ElementShapes ==
    {[tag |-> "h1", class |-> "article-title", in_title |-> FALSE],
     [tag |-> "h1", class |-> "headline", in_title |-> FALSE],
     [tag |-> "h1", class |-> "", in_title |-> FALSE],
     [tag |-> "h1", class |-> "", in_title |-> TRUE],
     [tag |-> "div", class |-> "article-headline", in_title |-> FALSE],
     [tag |-> "title", class |-> "", in_title |-> FALSE],
     [tag |-> "p", class |-> "", in_title |-> FALSE]}
Elements ==
    {[tag |-> e.tag, class |-> e.class, in_title |-> e.in_title, text |-> t] :
        e \in ElementShapes, t \in Texts}
Documents == UNION {[1..n -> Elements] : n \in 0..MaxElements}

\* The candidates of extract_headline, in order.
headline_selectors ==
    <<"h1.article-title", "h1.headline", "h1", ".title h1",
      ".article-headline", "title">>

\* The attributes of an element are a set of <<name, value>> pairs.
\* Whether element e carries the attribute.
Has(e, name) == \E p \in e.attrs : p[1] = name
\* element.get(name, ''): the value of the attribute, '' without it.
Get(e, name) ==
    IF Has(e, name) THEN (CHOOSE p \in e.attrs : p[1] = name)[2] ELSE <<>>

\* Whether element e matches the CSS selector.
Matches(e, selector) ==
    CASE selector = "h1.article-title" ->
            e.tag = "h1" /\ e.class = "article-title"
      [] selector = "h1.headline" -> e.tag = "h1" /\ e.class = "headline"
      [] selector = "h1" -> e.tag = "h1"
      [] selector = ".title h1" -> e.tag = "h1" /\ e.in_title
      [] selector = ".article-headline" -> e.class = "article-headline"
      [] selector = "title" -> e.tag = "title"
      [] selector = ".location" -> e.class = "location"
      [] selector = ".region" -> e.class = "region"
      [] selector = ".dateline" -> e.class = "dateline"
      [] selector = ".article-location" -> e.class = "article-location"
      [] selector = "time[datetime]" -> e.tag = "time" /\ Has(e, "datetime")
      [] selector = ".date" -> e.class = "date"
      [] selector = ".publish-date" -> e.class = "publish-date"
      [] selector = ".article-date" -> e.class = "article-date"
      [] selector = "[data-date]" -> Has(e, "data-date")
      [] selector = ".view-count" -> e.class = "view-count"
      [] selector = ".views" -> e.class = "views"
      [] selector = "[data-views]" -> Has(e, "data-views")
      [] selector = ".comment-count" -> e.class = "comment-count"
      [] selector = ".comments-count" -> e.class = "comments-count"
      [] selector = "[data-comments]" -> Has(e, "data-comments")
      [] selector = ".like-count" -> e.class = "like-count"
      [] selector = ".likes" -> e.class = "likes"
      [] selector = "[data-likes]" -> Has(e, "data-likes")
      [] selector = ".share-count" -> e.class = "share-count"
      [] selector = ".shares" -> e.class = "shares"
      [] selector = "[data-shares]" -> Has(e, "data-shares")
      [] selector = ".article-content" -> e.class = "article-content"
      [] selector = ".content" -> e.class = "content"
      [] selector = ".article-body" -> e.class = "article-body"
      [] selector = ".post-content" -> e.class = "post-content"

\* soup.select_one(selector): the first matching element in document order.
select_one(doc, selector) ==
    LET hits == {i \in 1..Len(doc) : Matches(doc[i], selector)}
    IN IF hits = {} THEN [found |-> FALSE, text |-> <<>>]
       ELSE [found |-> TRUE,
             text |-> doc[CHOOSE i \in hits : \A j \in hits : i <= j].text]

\* The index of the element soup.select_one(selector) returns; 0 for None.
select_index(doc, selector) ==
    LET hits == {i \in 1..Len(doc) : Matches(doc[i], selector)}
    IN IF hits = {} THEN 0 ELSE CHOOSE i \in hits : \A j \in hits : i <= j

\* str.strip(): the text without its leading and trailing blanks.
RECURSIVE Strip(_)
Strip(t) ==
    CASE t = <<>> -> <<>>
      [] Head(t) = " " -> Strip(Tail(t))
      [] t[Len(t)] = " " -> Strip(SubSeq(t, 1, Len(t) - 1))
      [] OTHER -> t

\* The loop of extract_headline from candidate k on.
RECURSIVE HeadlineFrom(_, _)
HeadlineFrom(doc, k) ==
    IF k > Len(headline_selectors) THEN <<>>
    ELSE LET element == select_one(doc, headline_selectors[k])
         IN IF element.found /\ Strip(element.text) # <<>>
            THEN Strip(element.text)
            ELSE HeadlineFrom(doc, k + 1)

\* A loop that takes the first candidate that matches, empty or not.
RECURSIVE HeadlineOfFirstMatch(_, _)
HeadlineOfFirstMatch(doc, k) ==
    IF k > Len(headline_selectors) THEN <<>>
    ELSE LET element == select_one(doc, headline_selectors[k])
         IN IF element.found
            THEN Strip(element.text)
            ELSE HeadlineOfFirstMatch(doc, k + 1)

ExtractHeadlineFirstMatch(doc) == HeadlineOfFirstMatch(doc, 1)
\* extract_headline
extract_headline(doc) == HeadlineFrom(doc, 1)

DocInit ==
    /\ soup \in Documents
    /\ headline = Pending
    /\ doc_category = ""
    /\ extracted = Pending

ExtractHeadline ==
    /\ headline = Pending
    /\ headline' = [kind |-> "str", text |-> extract_headline(soup)]
    /\ UNCHANGED <<soup, doc_category, extracted>>
    /\ UNCHANGED notDocVars

InitHeadline == CycleIdle /\ CalcIdle /\ MergeIdle /\ DocInit
NextHeadline == ExtractHeadline
SpecHeadline == InitHeadline /\ [][NextHeadline]_vars

\* Candidate k matches an element whose trimmed text is not empty.
Yields(k) ==
    LET element == select_one(soup, headline_selectors[k])
    IN element.found /\ \E i \in 1..Len(element.text) : element.text[i] # " "
Trimmed(t) == t = <<>> \/ (t[1] # " " /\ t[Len(t)] # " ")

\* C10: the headline is the trimmed text of the earliest candidate, in list
\* order, whose match has a non-empty trimmed text; candidates that match
\* nothing or only blank text are skipped; the headline is empty exactly
\* when no candidate yields a non-empty text.
C10_FirstMatchWins ==
    headline # Pending
        => LET yielding == {k \in 1..Len(headline_selectors) : Yields(k)}
           IN /\ Trimmed(headline.text)
              /\ (headline.text = <<>>) <=> (yielding = {})
              /\ \A k \in yielding :
                    (\A j \in yielding : k <= j)
                        => headline.text =
                              Strip(select_one(soup, headline_selectors[k]).text)

\* Both h1.article-title and h1 yield a text, the two texts differ, and the
\* h1.article-title element comes second in the document: the headline is
\* the text of h1.article-title, the earlier candidate.
C10_Witness ==
    /\ headline # Pending
    /\ Len(soup) = 2
    /\ Matches(soup[2], "h1.article-title")
    /\ ~Matches(soup[1], "h1.article-title")
    /\ Matches(soup[1], "h1")
    /\ Yields(1) /\ Yields(3)
    /\ Strip(soup[1].text) # Strip(soup[2].text)
    /\ headline.text = Strip(soup[2].text)

(***************************************************************************)
(* The location extractor.  Texts are sequences of characters, so that     *)
(* lower-casing and the substring test are computed.                       *)
(***************************************************************************)
\* str.lower() on the letters.
UpperToLower ==
    [A |-> "a", B |-> "b", C |-> "c", D |-> "d", E |-> "e", F |-> "f",
     G |-> "g", H |-> "h", I |-> "i", J |-> "j", K |-> "k", L |-> "l",
     M |-> "m", N |-> "n", O |-> "o", P |-> "p", Q |-> "q", R |-> "r",
     S |-> "s", T |-> "t", U |-> "u", V |-> "v", W |-> "w", X |-> "x",
     Y |-> "y", Z |-> "z"]
Lower(t) ==
    [i \in 1..Len(t) |->
        IF t[i] \in DOMAIN UpperToLower THEN UpperToLower[t[i]] ELSE t[i]]

\* key in text
Contains(text, key) ==
    \E i \in 1..Len(text) - Len(key) + 1 :
        SubSeq(text, i, i + Len(key) - 1) = key

\* self.location_mapping, in the order of the dict: the keyword, its
\* characters, and the canonical location.
location_mapping ==
    <<[key |-> "thiruvananthapuram",
       chars |-> <<"t", "h", "i", "r", "u", "v", "a", "n", "a", "n", "t",
                   "h", "a", "p", "u", "r", "a", "m">>,
       value |-> "Kerala/Thiruvananthapuram"],
      [key |-> "kochi", chars |-> <<"k", "o", "c", "h", "i">>,
       value |-> "Kerala/Ernakulam"],
      [key |-> "kozhikode",
       chars |-> <<"k", "o", "z", "h", "i", "k", "o", "d", "e">>,
       value |-> "Kerala/Kozhikode"],
      [key |-> "thrissur",
       chars |-> <<"t", "h", "r", "i", "s", "s", "u", "r">>,
       value |-> "Kerala/Thrissur"],
      [key |-> "kollam", chars |-> <<"k", "o", "l", "l", "a", "m">>,
       value |-> "Kerala/Kollam"],
      [key |-> "alappuzha",
       chars |-> <<"a", "l", "a", "p", "p", "u", "z", "h", "a">>,
       value |-> "Kerala/Alappuzha"],
      [key |-> "palakkad",
       chars |-> <<"p", "a", "l", "a", "k", "k", "a", "d">>,
       value |-> "Kerala/Palakkad"],
      [key |-> "malappuram",
       chars |-> <<"m", "a", "l", "a", "p", "p", "u", "r", "a", "m">>,
       value |-> "Kerala/Malappuram"],
      [key |-> "kannur", chars |-> <<"k", "a", "n", "n", "u", "r">>,
       value |-> "Kerala/Kannur"],
      [key |-> "kasargod",
       chars |-> <<"k", "a", "s", "a", "r", "g", "o", "d">>,
       value |-> "Kerala/Kasargod"],
      [key |-> "kerala", chars |-> <<"k", "e", "r", "a", "l", "a">>,
       value |-> "Kerala/General"],
      [key |-> "india", chars |-> <<"i", "n", "d", "i", "a">>,
       value |-> "India/National"],
      [key |-> "world", chars |-> <<"w", "o", "r", "l", "d">>,
       value |-> "International"],
      [key |-> "gulf", chars |-> <<"g", "u", "l", "f">>,
       value |-> "International/Gulf"]>>

\* The candidates of extract_location, in order.
location_selectors == <<".location", ".region", ".dateline", ".article-location">>

\* "Kochi city report"
KochiCityReport ==
    <<"K", "o", "c", "h", "i", " ", "c", "i", "t", "y", " ", "r", "e", "p",
      "o", "r", "t">>
\* "no-location-text"
NoLocationText ==
    <<"n", "o", "-", "l", "o", "c", "a", "t", "i", "o", "n", "-", "t", "e",
      "x", "t">>
\* "nonsense"
Nonsense == <<"n", "o", "n", "s", "e", "n", "s", "e">>
\* "Gulf, Kerala "
GulfKerala ==
    <<"G", "u", "l", "f", ",", " ", "K", "e", "r", "a", "l", "a", " ">>
\* "KOLLAM"
KollamUpper == <<"K", "O", "L", "L", "A", "M">>
\* "Indiana"
Indiana == <<"I", "n", "d", "i", "a", "n", "a">>

\* The texts a location element can hold.
LocationTexts ==
    {<<>>, KochiCityReport, NoLocationText, Nonsense, GulfKerala,
     KollamUpper, Indiana}
LocationClasses ==
    {"location", "region", "dateline", "article-location", "byline"}
LocationElements ==
    {[class |-> c, text |-> t] : c \in LocationClasses, t \in LocationTexts}
LocationDocuments ==
    UNION {[1..n -> LocationElements] : n \in 0..MaxElements}
\* The category arguments: keys of the scraper's categories with and
\* without an entry in location_mapping, and a key outside the categories.
LocationCategories == {"kerala", "world", "sports", "unknown-category"}

\* The value of the first item of the mapping, from item k on, whose key is
\* in the text; "" when there is none.
RECURSIVE FirstKeyIn(_, _)
FirstKeyIn(text, k) ==
    IF k > Len(location_mapping) THEN ""
    ELSE IF Contains(text, location_mapping[k].chars)
         THEN location_mapping[k].value
         ELSE FirstKeyIn(text, k + 1)

\* self.location_mapping.get(category, 'Kerala/General')
MappingGet(category) ==
    LET hits == {k \in 1..Len(location_mapping) :
                    location_mapping[k].key = category}
    IN IF hits = {} THEN "Kerala/General"
       ELSE location_mapping[CHOOSE k \in hits : TRUE].value

\* The loop with the text compared as written, without lower-casing it.
RECURSIVE LocationFromCaseSensitive(_, _, _)
LocationFromCaseSensitive(doc, category, k) ==
    IF k > Len(location_selectors) THEN MappingGet(category)
    ELSE LET element == select_one(doc, location_selectors[k])
             found == IF element.found
                      THEN FirstKeyIn(Strip(element.text), 1)
                      ELSE ""
         IN IF found # "" THEN found
            ELSE LocationFromCaseSensitive(doc, category, k + 1)

\* The loop of extract_location from candidate k on.
RECURSIVE LocationFrom(_, _, _)
LocationFrom(doc, category, k) ==
    IF k > Len(location_selectors) THEN MappingGet(category)
    ELSE LET element == select_one(doc, location_selectors[k])
             found == IF element.found
                      THEN FirstKeyIn(Lower(Strip(element.text)), 1)
                      ELSE ""
         IN IF found # "" THEN found
            ELSE LocationFrom(doc, category, k + 1)

ExtractLocationCaseSensitive(doc, category) ==
    LocationFromCaseSensitive(doc, category, 1)
\* extract_location
extract_location(doc, category) == LocationFrom(doc, category, 1)

LocationInit ==
    /\ soup \in LocationDocuments
    /\ doc_category \in LocationCategories
    /\ headline = Pending
    /\ extracted = Pending

ExtractLocation ==
    /\ extracted = Pending
    /\ extracted' = [kind |-> "location",
                     value |-> extract_location(soup, doc_category)]
    /\ UNCHANGED <<soup, headline, doc_category>>
    /\ UNCHANGED notDocVars

InitLocation == CycleIdle /\ CalcIdle /\ MergeIdle /\ LocationInit
NextLocation == ExtractLocation
SpecLocation == InitLocation /\ [][NextLocation]_vars

\* The canonical vocabulary.
CanonicalLocations ==
    {location_mapping[k].value : k \in 1..Len(location_mapping)}
        \cup {"Kerala/General"}
\* The keywords of the mapping that are in the lower-cased text.
KeywordsIn(text) ==
    {k \in 1..Len(location_mapping) :
        Contains(Lower(text), location_mapping[k].chars)}
\* The location candidates whose element holds a keyword.
Locating ==
    {k \in 1..Len(location_selectors) :
        LET element == select_one(soup, location_selectors[k])
        IN element.found /\ KeywordsIn(element.text) # {}}
\* A document whose only element is a dateline with this text.
Dateline(text) == <<[class |-> "dateline", text |-> text]>>

\* C11: the location is the canonical value of the first keyword, in the
\* order of the mapping, that is in the lower-cased text of the location
\* element (the earliest candidate holding a keyword); with no keyword it is
\* the mapping's value for the category key, and "Kerala/General" when the
\* category is no key either.  "Kochi city report" with "kerala" gives
\* "Kerala/Ernakulam", "no-location-text" with "world" gives
\* "International", "nonsense" with "unknown-category" gives
\* "Kerala/General".  The result is always in the canonical vocabulary.
C11_LocationNormalized ==
    extracted # Pending
        => /\ extracted.value \in CanonicalLocations
           /\ \A k \in Locating :
                 (\A j \in Locating : k <= j)
                     => LET text == select_one(soup, location_selectors[k]).text
                            first == CHOOSE m \in KeywordsIn(text) :
                                        \A n \in KeywordsIn(text) : m <= n
                        IN extracted.value = location_mapping[first].value
           /\ Locating = {}
                 => /\ \A k \in 1..Len(location_mapping) :
                          location_mapping[k].key = doc_category
                              => extracted.value = location_mapping[k].value
                    /\ (\A k \in 1..Len(location_mapping) :
                          location_mapping[k].key # doc_category)
                              => extracted.value = "Kerala/General"
           /\ (soup = Dateline(KochiCityReport) /\ doc_category = "kerala")
                 => extracted.value = "Kerala/Ernakulam"
           /\ (soup = Dateline(NoLocationText) /\ doc_category = "world")
                 => extracted.value = "International"
           /\ (soup = Dateline(Nonsense) /\ doc_category = "unknown-category")
                 => extracted.value = "Kerala/General"

\* The text "Gulf, Kerala " holds two keywords; "kerala" comes before
\* "gulf" in the mapping, so the location is "Kerala/General" and not the
\* keyword first in the text, nor the value for the category "world".
C11_Witness ==
    /\ extracted # Pending
    /\ soup = Dateline(GulfKerala)
    /\ doc_category = "world"
    /\ extracted.value = "Kerala/General"

(***************************************************************************)
(* The extractors of an article's fields and extract_article_data over a   *)
(* parsed article document.  An element has a tag, a class, attributes and *)
(* a text; attribute values and texts are sequences of characters.         *)
(***************************************************************************)
\* How many values a random.randint range is sampled at.
RandSamples == 3

DigitChars == <<"0", "1", "2", "3", "4", "5", "6", "7", "8", "9">>
Digits == {DigitChars[i] : i \in 1..Len(DigitChars)}
DigitValue(c) == (CHOOSE i \in 1..Len(DigitChars) : DigitChars[i] = c) - 1

\* str.replace(',', '')
RemoveCommas(t) == SelectSeq(t, LAMBDA c : c # ",")

\* re.search(r'(\d+)', text): the first run of digits, <<>> for no match.
RECURSIVE FromFirstDigit(_)
FromFirstDigit(t) ==
    IF t = <<>> \/ Head(t) \in Digits THEN t ELSE FromFirstDigit(Tail(t))
RECURSIVE LeadingDigits(_)
LeadingDigits(t) ==
    IF t = <<>> \/ Head(t) \notin Digits THEN <<>>
    ELSE <<Head(t)>> \o LeadingDigits(Tail(t))
SearchDigits(t) == LeadingDigits(FromFirstDigit(t))

\* int(digits)
RECURSIVE ToInt(_)
ToInt(ds) ==
    IF ds = <<>> THEN 0
    ELSE 10 * ToInt(SubSeq(ds, 1, Len(ds) - 1)) + DigitValue(ds[Len(ds)])

\* len(text.split()): the number of runs of non-blank characters.
WordCount(t) ==
    Cardinality({i \in 1..Len(t) : t[i] # " " /\ (i = 1 \/ t[i - 1] = " ")})

\* random.randint(lo, hi), at RandSamples values spread over the range.
randint(lo, hi) ==
    {lo + ((hi - lo) * k) \div (RandSamples - 1) : k \in 0..RandSamples - 1}

\* The candidates of the extractors, in order.
date_selectors ==
    <<"time[datetime]", ".date", ".publish-date", ".article-date",
      "[data-date]">>
view_selectors == <<".view-count", ".views", "[data-views]">>
comment_selectors == <<".comment-count", ".comments-count", "[data-comments]">>
like_selectors == <<".like-count", ".likes", "[data-likes]">>
share_selectors == <<".share-count", ".shares", "[data-shares]">>
content_selectors ==
    <<".article-content", ".content", ".article-body", ".post-content">>

\* datetime.now().isoformat(), and a date taken from the document.
Now == [now |-> TRUE, text |-> <<>>]
DateOf(text) == [now |-> FALSE, text |-> text]

\* parse_date_string: every branch returns the current time.
parse_date_string(date_str) == Now

\* The loop of extract_date from candidate k on.
RECURSIVE DateFrom(_, _)
DateFrom(doc, k) ==
    IF k > Len(date_selectors) THEN Now
    ELSE LET i == select_index(doc, date_selectors[k])
         IN IF i = 0 THEN DateFrom(doc, k + 1)
            ELSE IF Get(doc[i], "datetime") # <<>>
                 THEN DateOf(Get(doc[i], "datetime"))
            ELSE IF Get(doc[i], "data-date") # <<>>
                 THEN DateOf(Get(doc[i], "data-date"))
            ELSE IF Strip(doc[i].text) # <<>>
                 THEN parse_date_string(Strip(doc[i].text))
            ELSE DateFrom(doc, k + 1)

\* extract_date
extract_date(doc) == DateFrom(doc, 1)

\* The loop of a count extractor from candidate k on: the number found,
\* -1 when the loop ends without one.
RECURSIVE CountFrom(_, _, _, _)
CountFrom(doc, selectors, attr, k) ==
    IF k > Len(selectors) THEN -1
    ELSE LET i == select_index(doc, selectors[k])
             count_text == IF doc[i].text # <<>> THEN doc[i].text
                           ELSE Get(doc[i], attr)
             count == SearchDigits(RemoveCommas(count_text))
         IN IF i # 0 /\ count # <<>> THEN ToInt(count)
            ELSE CountFrom(doc, selectors, attr, k + 1)

\* A count extractor: the values it can return.
extract_count(doc, selectors, attr, lo, hi) ==
    LET count == CountFrom(doc, selectors, attr, 1)
    IN IF count >= 0 THEN {count} ELSE randint(lo, hi)

\* extract_views, extract_comments, extract_likes, extract_shares
extract_views(doc) == extract_count(doc, view_selectors, "data-views", 100, 50000)
extract_comments(doc) ==
    extract_count(doc, comment_selectors, "data-comments", 0, 200)
extract_likes(doc) == extract_count(doc, like_selectors, "data-likes", 0, 1000)
extract_shares(doc) == extract_count(doc, share_selectors, "data-shares", 0, 500)

\* The text of the first content candidate that matches, from candidate k.
RECURSIVE ContentFrom(_, _)
ContentFrom(doc, k) ==
    IF k > Len(content_selectors) THEN <<>>
    ELSE LET i == select_index(doc, content_selectors[k])
         IN IF i # 0 THEN doc[i].text ELSE ContentFrom(doc, k + 1)

\* ' '.join of the texts of the p elements from element i on.
RECURSIVE JoinParagraphs(_, _, _)
JoinParagraphs(doc, i, first) ==
    IF i > Len(doc) THEN <<>>
    ELSE IF doc[i].tag # "p" THEN JoinParagraphs(doc, i + 1, first)
    ELSE (IF first THEN <<>> ELSE <<" ">>) \o doc[i].text
            \o JoinParagraphs(doc, i + 1, FALSE)

\* extract_content_length
extract_content_length(doc) ==
    LET content_text == ContentFrom(doc, 1)
    IN IF content_text # <<>> THEN WordCount(content_text)
       ELSE WordCount(JoinParagraphs(doc, 1, TRUE))

\* A record whose score is computed with comments and likes exchanged.
ArticleDataLikesForComments(f, category, url) ==
    {[headline |-> f.headline, date |-> f.date, location |-> f.location,
      views |-> f.views, comments |-> f.comments, likes |-> f.likes,
      shares |-> f.shares, engagement_score |-> score,
      read_minutes |-> calculate_read_time(f.content_length, WordsPerMinute),
      category |-> category, url |-> url,
      content_length |-> f.content_length] :
        score \in calculate_engagement_score(f.views, f.likes, f.comments,
                                             f.shares)}
\* The NewsArticle records extract_article_data can build from the
\* extracted fields f.
article_data(f, category, url) ==
    {[headline |-> f.headline, date |-> f.date, location |-> f.location,
      views |-> f.views, comments |-> f.comments, likes |-> f.likes,
      shares |-> f.shares, engagement_score |-> score,
      read_minutes |-> calculate_read_time(f.content_length, WordsPerMinute),
      category |-> category, url |-> url,
      content_length |-> f.content_length] :
        score \in calculate_engagement_score(f.views, f.comments, f.likes,
                                             f.shares)}

\* The texts and attribute values of the elements.
OneWord == <<"a">>
TwoWords == <<"a", " ", "b">>
DateText == <<"1", " ", "J", "a", "n">>
IsoDate == <<"2", "0", "2", "4", "-", "0", "5", "-", "0", "1">>
OtherIsoDate == <<"2", "0", "2", "4", "-", "0", "6", "-", "0", "2">>
NineViews == <<"9", " ", "v", "i", "e", "w", "s">>
ViewsWord == <<"v", "i", "e", "w", "s">>
Number1234 == <<"1", "2", "3", "4">>
Number1Comma234 == <<"1", ",", "2", "3", "4">>
Kochi == <<"K", "o", "c", "h", "i">>

Element(tag, class, attrs, text) ==
    [tag |-> tag, class |-> class, in_title |-> FALSE, attrs |-> attrs,
     text |-> text]

\* The elements of an article document: a headline, dates as attribute and
\* as text, counts as attribute and as text, content, a dateline.
ArticleElements ==
    {Element("h1", "", {}, OneWord),
     Element("time", "", {<<"datetime", IsoDate>>}, DateText),
     Element("span", "date", {}, DateText),
     Element("div", "", {<<"data-date", OtherIsoDate>>}, <<>>),
     Element("span", "views", {}, NineViews),
     Element("span", "views", {<<"data-views", Number1234>>}, NineViews),
     Element("span", "view-count", {<<"data-views", Number1234>>}, ViewsWord),
     Element("span", "", {<<"data-views", Number1Comma234>>}, <<>>),
     Element("span", "comment-count", {}, <<"7">>),
     Element("span", "likes", {<<"data-likes", <<"3">>>>}, <<>>),
     Element("span", "share-count", {}, <<"2">>),
     Element("div", "article-content", {}, TwoWords),
     Element("p", "", {}, OneWord),
     Element("span", "dateline", {}, Kochi)}
ArticleDocuments == UNION {[1..n -> ArticleElements] : n \in 0..MaxElements}
ArticleCategories == {"kerala", "sports"}
\* The url argument of extract_article_data.
ArticleUrl == "https://www.manoramaonline.com/news/1.html"

ArticleInit ==
    /\ soup \in ArticleDocuments
    /\ doc_category \in ArticleCategories
    /\ headline = Pending
    /\ extracted = Pending

\* extract_date on the document.
ExtractDate ==
    /\ extracted = Pending
    /\ extracted' = [kind |-> "date", value |-> extract_date(soup)]
    /\ UNCHANGED <<soup, headline, doc_category>>
    /\ UNCHANGED notDocVars

\* extract_views on the document.
ExtractViews ==
    /\ extracted = Pending
    /\ \E views \in extract_views(soup) :
          extracted' = [kind |-> "views", value |-> views]
    /\ UNCHANGED <<soup, headline, doc_category>>
    /\ UNCHANGED notDocVars

\* extract_article_data from the parsed response on.
ExtractArticleFields ==
    /\ extracted = Pending
    /\ LET h == extract_headline(soup)
       IN IF h = <<>>
          THEN extracted' = [kind |-> "none"]
          ELSE \E views \in extract_views(soup),
                  comments \in extract_comments(soup),
                  likes \in extract_likes(soup),
                  shares \in extract_shares(soup) :
                 \E article \in
                        article_data(
                            [headline |-> h, date |-> extract_date(soup),
                             location |->
                                 extract_location(soup, doc_category),
                             views |-> views, comments |-> comments,
                             likes |-> likes, shares |-> shares,
                             content_length |->
                                 extract_content_length(soup)],
                            doc_category, ArticleUrl) :
                    extracted' = [kind |-> "article", value |-> article]
    /\ UNCHANGED <<soup, headline, doc_category>>
    /\ UNCHANGED notDocVars

InitArticle == CycleIdle /\ CalcIdle /\ MergeIdle /\ ArticleInit
NextArticle == ExtractDate \/ ExtractViews \/ ExtractArticleFields
SpecArticle == InitArticle /\ [][NextArticle]_vars

\* The selectors of the four count extractors.
CountSelectors ==
    {view_selectors[k] : k \in 1..Len(view_selectors)}
        \cup {comment_selectors[k] : k \in 1..Len(comment_selectors)}
        \cup {like_selectors[k] : k \in 1..Len(like_selectors)}
        \cup {share_selectors[k] : k \in 1..Len(share_selectors)}
\* No element of the document matches a count selector.
NoCountElement ==
    \A i \in 1..Len(soup) : \A selector \in CountSelectors :
        ~Matches(soup[i], selector)
\* Some headline candidate matches an element with a non-blank text.
HasHeadline == \E k \in 1..Len(headline_selectors) : Yields(k)
\* score, in hundredths, is min((0.4 c + 0.3 l + 0.3 s) / v * 100, 100)
\* rounded to two decimals.
IsScoreOf(score, v, c, l, s) ==
    LET capped == Min(1000 * (4 * c + 3 * l + 3 * s), 10000 * v)
        distance == IF score * v >= capped THEN score * v - capped
                    ELSE capped - score * v
    IN 2 * distance <= v

\* C12: a document with a non-empty headline and no element matching a
\* views, comments, likes or shares selector yields a record with views in
\* 100..50000, comments in 0..200, likes in 0..1000, shares in 0..500, whose
\* engagement_score is the score formula applied to those stored counts.
C12_SyntheticCounts ==
    (extracted # Pending /\ extracted.kind \in {"article", "none"}
        /\ HasHeadline /\ NoCountElement)
        => /\ extracted.kind = "article"
           /\ LET a == extracted.value
              IN /\ a.views \in 100..50000
                 /\ a.comments \in 0..200
                 /\ a.likes \in 0..1000
                 /\ a.shares \in 0..500
                 /\ IsScoreOf(a.engagement_score, a.views, a.comments,
                              a.likes, a.shares)

\* A record with synthetic counts at the ends of their ranges and a score
\* below the cap.
C12_Witness ==
    /\ extracted # Pending /\ extracted.kind = "article"
    /\ HasHeadline /\ NoCountElement
    /\ extracted.value.views = 50000
    /\ extracted.value.comments = 200
    /\ extracted.value.likes = 0
    /\ extracted.value.shares = 500
    /\ extracted.value.engagement_score = 46

\* The usable date attributes of the document: the non-empty datetime and
\* data-date values of the elements a date candidate matches.
DateAttributes ==
    {Get(soup[i], name) :
        i \in {j \in 1..Len(soup) :
                 \E k \in 1..Len(date_selectors) :
                     Matches(soup[j], date_selectors[k])},
        name \in {"datetime", "data-date"}} \ {<<>>}
\* The usable data-views attributes of the document: the numbers in the
\* data-views values of the elements a views candidate matches.
ViewAttributes ==
    {ToInt(SearchDigits(RemoveCommas(Get(soup[i], "data-views")))) :
        i \in {j \in 1..Len(soup) :
                 /\ \E k \in 1..Len(view_selectors) :
                        Matches(soup[j], view_selectors[k])
                 /\ SearchDigits(RemoveCommas(Get(soup[j], "data-views")))
                        # <<>>}}

\* C15 (as claimed): when an element matched by the extractor's candidates
\* carries a usable structured attribute, extract_date and extract_views
\* return the value of such an attribute, never a value derived from text
\* and never the fallback.
C15_AttributesFirst ==
    /\ (extracted # Pending /\ extracted.kind = "date"
            /\ DateAttributes # {})
          => (~extracted.value.now
                 /\ extracted.value.text \in DateAttributes)
    /\ (extracted # Pending /\ extracted.kind = "views"
            /\ ViewAttributes # {})
          => extracted.value \in ViewAttributes
====
